---- MODULE Spec2Model ----
(***************************************************************************)
(* Blog management system: the post store (slug assignment, publication   *)
(* state, derived reading time, ownership) and its comments, as served by *)
(* the routes of backend/routes/posts.js and backend/routes/comments.js   *)
(* on top of the Mongoose models Post and Comment, and the state the      *)
(* React front end keeps in the browser.                                  *)
(*                                                                         *)
(* Strings are sequences of one-character strings.  A request body is a   *)
(* record with a field `has` naming the fields the client sent.           *)
(* Time is a counter that advances with every request received.           *)
(*                                                                         *)
(* Specifications:                                                         *)
(*   Spec        the posts router and comment creation, interleaved        *)
(*   EditSpec    the create and update routes of the posts router alone    *)
(*   SaveSpec    posts created one after another                           *)
(*   ThreadSpec  comment creation, reading and deletion and the like       *)
(*               routes, with the store calls of a like as separate steps  *)
(*   LoopSpec    the uniqueness loop of the save hook, step by step        *)
(*   AdminSpec   user and post deletion on a store of posts and comments   *)
(*   AuthSpec    the auth context of the front end and its reducer         *)
(*   ApiSpec     one instance of the useApi hook                           *)
(*   CacheSpec   the TTL cache of the front end                            *)
(*   PageSpec    the EditPost page against the posts router                *)
(***************************************************************************)
EXTENDS Integers, Sequences, FiniteSets, TLC

VARIABLES posts, comments, nextPost, nextComment, creating, deleting,
          commenting, now, everPublished, resp,
          users, liking, version, deletingComment, loop,
          hook, cache, auth, page

vars == <<posts, comments, nextPost, nextComment, creating, deleting,
          commenting, now, everPublished, resp,
          users, liking, version, deletingComment, loop,
          hook, cache, auth, page>>

\* the state of the browser: a useApi instance, the TTL cache, the auth
\* context and the EditPost page, which no route handler reads or writes
clientVars == <<hook, cache, auth, page>>

\* the state of the user store, of the like and comment-delete routes and of
\* the slug loop, which the post routes below neither read nor write
sideVars == <<users, liking, version, deletingComment, loop, clientVars>>

(***************************************************************************)
(* Bounds of the model.                                                    *)
(***************************************************************************)
MaxPosts == 2
MaxComments == 2
MaxClock == 4

(***************************************************************************)
(* Program constants.                                                      *)
(***************************************************************************)
SlugMaxLen == 50
TitleMaxLen == 200
SeoTitleMaxLen == 60
WordsPerMinute == 200
CACHE_EXPIRY == 300000

(***************************************************************************)
(* Users.  The users collection is fixed here: one admin and two authors. *)
(* Ghost is a well-formed ObjectId that names no stored user; Anon is a   *)
(* request without a valid token, which only the routes behind            *)
(* optionalAuth let through: protect answers it before any handler runs.  *)
(***************************************************************************)
Users == {"admin", "alice", "bob"}
Ghost == "ghost"
Anon == "anon"
Role(u) == IF u = "admin" THEN "admin" ELSE "author"

Statuses == {"draft", "published", "archived"}

(***************************************************************************)
(* Characters and strings.                                                 *)
(***************************************************************************)
Lower(c) == IF c = "H" THEN "h" ELSE c
IsSpace(c) == c = " "
IsAlnum(c) == c \in {"H", "h", "i", "a", "b", "w", "x",
                     "0", "1", "2", "3", "4", "5", "6", "7", "8", "9"}

Min(a, b) == IF a < b THEN a ELSE b

\* ceil(a / b) for a >= 0, b > 0
CeilDiv(a, b) == (a + b - 1) \div b

RECURSIVE TrimLeft(_)
TrimLeft(s) ==
  IF s # <<>> /\ IsSpace(Head(s)) THEN TrimLeft(Tail(s)) ELSE s

RECURSIVE TrimRight(_)
TrimRight(s) ==
  IF s # <<>> /\ IsSpace(s[Len(s)]) THEN TrimRight(SubSeq(s, 1, Len(s) - 1))
  ELSE s

\* String.prototype.trim / the validator's and the schema's trim
Trim(s) == TrimRight(TrimLeft(s))

\* String.prototype.toLowerCase
ToLowerCase(s) == [i \in 1..Len(s) |-> Lower(s[i])]

\* .replace(/[^a-zA-Z0-9\s]/g, '')
RECURSIVE StripSpecial(_)
StripSpecial(s) ==
  IF s = <<>> THEN <<>>
  ELSE IF IsAlnum(Head(s)) \/ IsSpace(Head(s))
       THEN <<Head(s)>> \o StripSpecial(Tail(s))
       ELSE StripSpecial(Tail(s))

\* .replace(/\s+/g, '-'): every run of whitespace becomes one hyphen
RECURSIVE Hyphenate(_)
Hyphenate(s) ==
  IF s = <<>> THEN <<>>
  ELSE IF IsSpace(Head(s))
       THEN <<"-">> \o Hyphenate(TrimLeft(s))
       ELSE <<Head(s)>> \o Hyphenate(Tail(s))

\* .substring(0, n)
Substring(s, n) == SubSeq(s, 1, Min(n, Len(s)))

DigitChar == <<"0", "1", "2", "3", "4", "5", "6", "7", "8", "9">>

\* decimal rendering of a counter inside a template string
RECURSIVE NumStr(_)
NumStr(n) ==
  IF n < 10 THEN <<DigitChar[n + 1]>>
  ELSE NumStr(n \div 10) \o <<DigitChar[(n % 10) + 1]>>

\* baseSlug of the pre-save hook
BaseSlug(title) ==
  Substring(Hyphenate(StripSpecial(ToLowerCase(title))), SlugMaxLen)

\* text.split(/\s+/).length: one more piece than there are whitespace runs
SplitCount(s) ==
  Cardinality({i \in 1..Len(s) :
                 IsSpace(s[i]) /\ (i = 1 \/ ~IsSpace(s[i - 1]))}) + 1

\* readingTime of the pre-save hook
ReadingTime(content) == CeilDiv(SplitCount(content), WordsPerMinute)

Max(a, b) == IF a > b THEN a ELSE b

\* .replace(/<[^>]*>/g, ''): a '<' and everything up to the next '>' goes
RECURSIVE StripTags(_)
StripTags(s) ==
  IF \E i, j \in 1..Len(s) : i < j /\ s[i] = "<" /\ s[j] = ">"
  THEN LET open == CHOOSE i \in 1..Len(s) :
                     s[i] = "<" /\ \A k \in 1..(i - 1) : s[k] # "<"
           close == CHOOSE j \in (open + 1)..Len(s) :
                      s[j] = ">" /\ \A k \in (open + 1)..(j - 1) : s[k] # ">"
       IN SubSeq(s, 1, open - 1) \o StripTags(SubSeq(s, close + 1, Len(s)))
  ELSE s

\* .split(/\s+/).filter(word => word.length > 0).length
TokenCount(s) ==
  Cardinality({i \in 1..Len(s) :
                 ~IsSpace(s[i]) /\ (i = 1 \/ IsSpace(s[i - 1]))})

\* calculateReadingTime of the client's helpers
calculateReadingTime(text) ==
  IF text = <<>> THEN 0
  ELSE Max(1, CeilDiv(TokenCount(StripTags(text)), WordsPerMinute))

(***************************************************************************)
(* Request inputs.                                                         *)
(***************************************************************************)
Words(n) == [i \in 1..(2 * n - 1) |-> IF i % 2 = 1 THEN "w" ELSE " "]

TitleHi == <<"H", "i", "!">>
TitleAB == <<"a", " ", "b">>
Blank == <<" ">>
SlugHi == <<"h", "i">>
OneWord == <<"w">>
LongText == Words(WordsPerMinute + 1)

BodyTitles == {TitleHi, TitleAB, Blank}
BodyContents == {OneWord, LongText}
BodyStatuses == Statuses \cup {"bogus"}
BodySlugs == {SlugHi}
BodyAuthors == {Ghost}
BodyDates == {99}
BodySeoTitles == {SeoTitleMaxLen + 1}

\* req.body: the fields named by has were sent, the others are undefined
EmptyBody ==
  [has |-> {}, title |-> <<>>, content |-> <<>>, status |-> "draft",
   slug |-> <<>>, author |-> Ghost, publishedAt |-> 0, seoTitle |-> 0]

\* the bodies that set one more field of the body b
Variants(b) ==
  {b}
  \cup {[b EXCEPT !.has = @ \cup {"title"}, !.title = v] : v \in BodyTitles}
  \cup {[b EXCEPT !.has = @ \cup {"content"}, !.content = v] :
          v \in BodyContents}
  \cup {[b EXCEPT !.has = @ \cup {"status"}, !.status = v] :
          v \in BodyStatuses}
  \cup {[b EXCEPT !.has = @ \cup {"slug"}, !.slug = v] : v \in BodySlugs}
  \cup {[b EXCEPT !.has = @ \cup {"author"}, !.author = v] :
          v \in BodyAuthors}
  \cup {[b EXCEPT !.has = @ \cup {"publishedAt"}, !.publishedAt = v] :
          v \in BodyDates}
  \cup {[b EXCEPT !.has = @ \cup {"seoTitle"}, !.seoTitle = v] :
          v \in BodySeoTitles}

\* the bodies sent to POST /api/posts: a plain post, or one field changed
CreateBodies ==
  Variants([EmptyBody EXCEPT !.has = {"title", "content"},
                             !.title = TitleHi, !.content = OneWord])

\* the bodies sent to PUT /api/posts/:id: partial, at most one field
UpdateBodies == Variants(EmptyBody)

PostIds == 1..MaxPosts
CommentIds == 1..MaxComments

\* the :id parameter of a route: an ObjectId, or any other string (a slug)
Keys == {[kind |-> "id", id |-> i, slug |-> <<>>] : i \in PostIds}
        \cup {[kind |-> "slug", id |-> 0, slug |-> SlugHi]}

Callers == Users \cup {Anon}

\* the user who writes posts here; to her posts bob is a stranger and admin
\* the admin
Writers == {"alice"}

(***************************************************************************)
(* Responses.  resp is the response sent by the last step, NoResp when the *)
(* step sent none (the handler is suspended on a store call).  had is the  *)
(* set of comments the post of a deletePost had when the request arrived,  *)
(* comment the :id of a comment route.                                     *)
(***************************************************************************)
NoResp ==
  [op |-> "none", code |-> 0, caller |-> Anon, post |-> 0, err |-> "none",
   had |-> {}, comment |-> 0]

Response(op, code, caller, post, err) ==
  [op |-> op, code |-> code, caller |-> caller, post |-> post, err |-> err,
   had |-> {}, comment |-> 0]

(***************************************************************************)
(* Middleware.                                                             *)
(***************************************************************************)
\* authorize('author', 'admin')
Authorize(caller) == Role(caller) \in {"author", "admin"}

\* body('title').trim().isLength({ min: 1, max: 200 })
TitleRuleOK(t) == Len(Trim(t)) >= 1 /\ Len(Trim(t)) <= TitleMaxLen

\* body('content').trim().isLength({ min: 1 })
ContentRuleOK(c) == Len(Trim(c)) >= 1

\* validatePostCreation: an undefined title or content validates as ''
ValidatePostCreation(b) ==
  /\ TitleRuleOK(b.title)
  /\ ContentRuleOK(b.content)
  /\ "status" \in b.has => b.status \in Statuses

\* validatePostUpdate: every rule is optional()
ValidatePostUpdate(b) ==
  /\ "title" \in b.has => TitleRuleOK(b.title)
  /\ "content" \in b.has => ContentRuleOK(b.content)
  /\ "status" \in b.has => b.status \in Statuses

\* the sanitizers of the validation chains rewrite req.body
Sanitize(b) == [b EXCEPT !.title = Trim(@), !.content = Trim(@)]

\* validateObjectId on the :id parameter
ValidateObjectId(key) == key.kind = "id"

(***************************************************************************)
(* Post model.                                                             *)
(***************************************************************************)
\* schema validators (maxlength, enum) on the fields of a body
SchemaValid(b) ==
  /\ "title" \in b.has => Len(b.title) <= TitleMaxLen
  /\ "status" \in b.has => b.status \in Statuses
  /\ "seoTitle" \in b.has => b.seoTitle <= SeoTitleMaxLen

\* Post.findOne({ slug })
FindBySlug(P, slug) == {p \in DOMAIN P : P[p].slug = slug}

\* a uniqueness loop that increments its counter before it uses it
RECURSIVE UniqueSlugSkip(_, _, _, _, _)
UniqueSlugSkip(P, self, baseSlug, slug, counter) ==
  IF FindBySlug(P, slug) \subseteq {self} THEN slug
  ELSE UniqueSlugSkip(P, self, baseSlug,
                      baseSlug \o <<"-">> \o NumStr(counter + 1), counter + 1)

\* the uniqueness loop of the pre-save hook
RECURSIVE UniqueSlug(_, _, _, _, _)
UniqueSlug(P, self, baseSlug, slug, counter) ==
  IF FindBySlug(P, slug) \subseteq {self} THEN slug
  ELSE UniqueSlug(P, self, baseSlug,
                  baseSlug \o <<"-">> \o NumStr(counter), counter + 1)

\* a save hook without its publishedAt rule
PreSaveNewNoDate(P, self, b, author, t) ==
  [title |-> b.title,
   slug |-> IF b.slug = <<>>
            THEN UniqueSlug(P, self, BaseSlug(b.title), BaseSlug(b.title), 1)
            ELSE b.slug,
   content |-> b.content,
   status |-> b.status,
   publishedAt |-> b.publishedAt,
   readingTime |-> ReadingTime(b.content),
   author |-> author,
   likes |-> <<>>,
   views |-> 0]

\* postSchema.pre('save') on a new document built from the body b
PreSaveNew(P, self, b, author, t) ==
  [title |-> b.title,
   slug |-> IF b.slug = <<>>
            THEN UniqueSlug(P, self, BaseSlug(b.title), BaseSlug(b.title), 1)
            ELSE b.slug,
   content |-> b.content,
   status |-> b.status,
   publishedAt |-> IF "status" \in b.has /\ b.status = "published"
                      /\ b.publishedAt = 0
                   THEN t ELSE b.publishedAt,
   readingTime |-> ReadingTime(b.content),
   author |-> author,
   likes |-> <<>>,
   views |-> 0]

\* a slug field declared without unique: true
NoUniqueIndex(P, self, slug) == TRUE

\* the unique index on slug: may the document self carry this slug?
UniqueIndexOK(P, self, slug) ==
  \A p \in DOMAIN P \ {self} : P[p].slug # slug

\* an update that treats archived as a final status
ApplyUpdateArchivedFinal(doc, b) ==
  [doc EXCEPT
     !.title = IF "title" \in b.has THEN b.title ELSE @,
     !.content = IF "content" \in b.has THEN b.content ELSE @,
     !.status = IF "status" \in b.has /\ doc.status # "archived"
                THEN b.status ELSE @,
     !.slug = IF "slug" \in b.has THEN b.slug ELSE @,
     !.author = IF "author" \in b.has THEN b.author ELSE @,
     !.publishedAt = IF "publishedAt" \in b.has THEN b.publishedAt ELSE @]

\* the $set that findByIdAndUpdate builds from a body: no save hook runs
ApplyUpdate(doc, b) ==
  [doc EXCEPT
     !.title = IF "title" \in b.has THEN b.title ELSE @,
     !.content = IF "content" \in b.has THEN b.content ELSE @,
     !.status = IF "status" \in b.has THEN b.status ELSE @,
     !.slug = IF "slug" \in b.has THEN b.slug ELSE @,
     !.author = IF "author" \in b.has THEN b.author ELSE @,
     !.publishedAt = IF "publishedAt" \in b.has THEN b.publishedAt ELSE @]

\* findById(id), then findOne({ slug: id }); 0 when both find nothing
FindPost(P, key) ==
  IF key.kind = "id" /\ key.id \in DOMAIN P THEN key.id
  ELSE IF key.kind = "slug" /\ FindBySlug(P, key.slug) # {}
       THEN CHOOSE p \in FindBySlug(P, key.slug) : TRUE
       ELSE 0

\* an ownership check that forgets the admin role
OwnerOnly(caller, doc) == doc.author = caller

\* the ownership check of the update and delete routes
OwnerOrAdmin(caller, doc) == doc.author = caller \/ Role(caller) = "admin"

\* populate('author'): the user's id, "null" when no such user is stored
PopulateAuthor(doc) == IF doc.author \in Users THEN doc.author ELSE "null"

\* drop the entries of a function outside the set S
Restrict(f, S) == [x \in S |-> f[x]]

\* the documents of the like routes: a post or a comment
LikeKeys ==
  {[kind |-> "post", id |-> i] : i \in PostIds}
  \cup {[kind |-> "comment", id |-> i] : i \in CommentIds}

\* no save hook is inside its uniqueness loop
NoLoop ==
  [pc |-> "idle", self |-> 0, baseSlug |-> <<>>, slug |-> <<>>, counter |-> 0]

(***************************************************************************)
(* The state of the browser before anything is done in it.                 *)
(***************************************************************************)
\* JavaScript's null, where a string may stand and where an object may
Null == "null"
NullObject == [null |-> TRUE]

\* a useApi instance after its first render and its mount effect: nothing
\* loaded, abortControllerRef.current null, and `captured` the controller
\* the cleanup of the mount effect closed over.  reqs[i] is the request of
\* the i-th execute, which controller i belongs to; 0 is no request, no
\* controller, and null for the data and the error of a request.
NoHook ==
  [mounted |-> TRUE, data |-> 0, loading |-> FALSE, error |-> 0,
   ref |-> 0, captured |-> 0, reqs |-> <<>>]

\* the module-level Map of utils/cache.js, empty; `time` is Date.now(),
\* `written` what setCache was last called with for each key that has not
\* been removed since, `got` what getCache last returned
NoCache ==
  [time |-> 0, map |-> <<>>, written |-> <<>>,
   got |-> [key |-> Null, value |-> Null, all |-> <<>>, at |-> 0]]

\* const initialState of AuthContext.js, with no token in localStorage
initialState ==
  [user |-> NullObject, token |-> Null, isAuthenticated |-> FALSE,
   loading |-> TRUE]

\* the auth context: the reducer's state and the calls of the provider's
\* functions that have not dispatched yet; the first is the loadUser effect
NoAuth == [state |-> initialState, pending |-> {[kind |-> "load"]}]

\* the EditPost page before its post is fetched
NoPage ==
  [phase |-> "closed", id |-> 0, originalPost |-> 0,
   formData |-> [title |-> <<>>, content |-> <<>>, status |-> "draft"],
   submitted |-> "none", request |-> EmptyBody, sentAt |-> 0]

ClientInit ==
  /\ hook = NoHook
  /\ cache = NoCache
  /\ auth = NoAuth
  /\ page = NoPage

(***************************************************************************)
(* Initial state: empty collections, no request in flight.                 *)
(***************************************************************************)
Init ==
  /\ users = Users
  /\ liking = {}
  /\ version = [k \in LikeKeys |-> 0]
  /\ deletingComment = {}
  /\ loop = NoLoop
  /\ ClientInit
  /\ posts = <<>>
  /\ comments = <<>>
  /\ nextPost = 1
  /\ nextComment = 1
  /\ creating = {}
  /\ deleting = {}
  /\ commenting = {}
  /\ now = 1
  /\ everPublished = {}
  /\ resp = NoResp

\* a request is received: the clock advances
Receive == now < MaxClock /\ now' = now + 1

Reply(r) == resp' = r

(***************************************************************************)
(* POST /api/posts.  CreatePost runs the middleware and Post.create up to  *)
(* the end of the pre-save hook; CreatePostInsert is the insert that       *)
(* follows it, which the unique index may reject.                          *)
(***************************************************************************)
CreatePost(caller, body) ==
  /\ UNCHANGED sideVars
  /\ Receive
  /\ LET b == Sanitize(body) IN
     IF ~Authorize(caller) THEN
       /\ Reply(Response("create", 403, caller, 0, "none"))
       /\ UNCHANGED <<posts, comments, nextPost, nextComment, creating,
                      deleting, commenting, everPublished>>
     ELSE IF ~ValidatePostCreation(b) THEN
       /\ Reply(Response("create", 400, caller, 0, "validation"))
       /\ UNCHANGED <<posts, comments, nextPost, nextComment, creating,
                      deleting, commenting, everPublished>>
     ELSE IF ~SchemaValid(b) THEN
       \* Post.create throws a ValidationError: the catch block answers 400
       /\ Reply(Response("create", 400, caller, 0, "ValidationError"))
       /\ UNCHANGED <<posts, comments, nextPost, nextComment, creating,
                      deleting, commenting, everPublished>>
     ELSE
       /\ nextPost <= MaxPosts
       /\ creating' = creating \cup
            {[rid |-> now, id |-> nextPost, caller |-> caller,
              doc |-> PreSaveNew(posts, nextPost, b, caller, now)]}
       /\ nextPost' = nextPost + 1
       /\ Reply(NoResp)
       /\ UNCHANGED <<posts, comments, nextComment, deleting, commenting,
                      everPublished>>

CreatePostInsert(c) ==
  /\ UNCHANGED sideVars
  /\ c \in creating
  /\ creating' = creating \ {c}
  /\ IF UniqueIndexOK(posts, c.id, c.doc.slug) THEN
       /\ posts' = (c.id :> c.doc) @@ posts
       /\ everPublished' = IF c.doc.status = "published"
                           THEN everPublished \cup {c.id} ELSE everPublished
       /\ Reply(Response("create", 201, c.caller, c.id, "none"))
     ELSE
       \* E11000 is no ValidationError: the catch block answers 500
       /\ Reply(Response("create", 500, c.caller, c.id, "E11000"))
       /\ UNCHANGED <<posts, everPublished>>
  /\ UNCHANGED <<comments, nextPost, nextComment, deleting, commenting, now>>

(***************************************************************************)
(* PUT /api/posts/:id                                                      *)
(***************************************************************************)
UpdatePost(caller, key, body) ==
  /\ UNCHANGED sideVars
  /\ Receive
  /\ UNCHANGED <<comments, nextPost, nextComment, creating, deleting,
                 commenting>>
  /\ LET b == Sanitize(body)
         id == FindPost(posts, key)
     IN
     IF ~ValidatePostUpdate(b) THEN
       /\ Reply(Response("update", 400, caller, 0, "validation"))
       /\ UNCHANGED <<posts, everPublished>>
     ELSE IF id = 0 THEN
       /\ Reply(Response("update", 404, caller, 0, "none"))
       /\ UNCHANGED <<posts, everPublished>>
     ELSE IF ~OwnerOrAdmin(caller, posts[id]) THEN
       /\ Reply(Response("update", 403, caller, id, "none"))
       /\ UNCHANGED <<posts, everPublished>>
     ELSE IF ~SchemaValid(b) THEN
       \* runValidators rejects the update: the catch block answers 500
       /\ Reply(Response("update", 500, caller, id, "ValidationError"))
       /\ UNCHANGED <<posts, everPublished>>
     ELSE IF ~UniqueIndexOK(posts, id, ApplyUpdate(posts[id], b).slug) THEN
       /\ Reply(Response("update", 500, caller, id, "E11000"))
       /\ UNCHANGED <<posts, everPublished>>
     ELSE
       /\ posts' = [posts EXCEPT ![id] = ApplyUpdate(@, b)]
       /\ everPublished' = IF posts'[id].status = "published"
                           THEN everPublished \cup {id} ELSE everPublished
       /\ Reply(Response("update", 200, caller, id, "none"))

(***************************************************************************)
(* DELETE /api/posts/:id.  DeletePost runs up to Comment.deleteMany;       *)
(* DeletePostRemove is the Post.findByIdAndDelete that follows it.         *)
(***************************************************************************)
\* a delete route without the cascade
NoComments(C, id) == {}

\* the comments matched by Comment.deleteMany({ post: id })
CommentsOf(C, id) == {c \in DOMAIN C : C[c].post = id}

\* a delete route that removes the comments before it checks the owner
DeletePostCascadeFirst(caller, key) ==
  /\ UNCHANGED sideVars
  /\ Receive
  /\ UNCHANGED <<posts, nextPost, nextComment, creating, commenting,
                 everPublished>>
  /\ LET id == FindPost(posts, key) IN
     IF ~ValidateObjectId(key) THEN
       /\ Reply(Response("delete", 400, caller, 0, "validation"))
       /\ UNCHANGED <<comments, deleting>>
     ELSE IF id = 0 THEN
       /\ Reply(Response("delete", 404, caller, 0, "none"))
       /\ UNCHANGED <<comments, deleting>>
     ELSE
       /\ comments' = Restrict(comments,
                                DOMAIN comments \ CommentsOf(comments, id))
       /\ IF ~OwnerOrAdmin(caller, posts[id]) THEN
            /\ Reply(Response("delete", 403, caller, id, "none"))
            /\ UNCHANGED deleting
          ELSE
            /\ deleting' = deleting \cup
                 {[rid |-> now, caller |-> caller, post |-> id,
                   had |-> {c \in DOMAIN comments : comments[c].post = id}]}
            /\ Reply(NoResp)

DeletePost(caller, key) ==
  /\ UNCHANGED sideVars
  /\ Receive
  /\ UNCHANGED <<posts, nextPost, nextComment, creating, commenting,
                 everPublished>>
  /\ LET id == FindPost(posts, key) IN
     IF ~ValidateObjectId(key) THEN
       /\ Reply(Response("delete", 400, caller, 0, "validation"))
       /\ UNCHANGED <<comments, deleting>>
     ELSE IF id = 0 THEN
       /\ Reply(Response("delete", 404, caller, 0, "none"))
       /\ UNCHANGED <<comments, deleting>>
     ELSE IF ~OwnerOrAdmin(caller, posts[id]) THEN
       /\ Reply(Response("delete", 403, caller, id, "none"))
       /\ UNCHANGED <<comments, deleting>>
     ELSE
       /\ comments' = Restrict(comments,
                                DOMAIN comments \ CommentsOf(comments, id))
       /\ deleting' = deleting \cup
            {[rid |-> now, caller |-> caller, post |-> id,
              had |-> {c \in DOMAIN comments : comments[c].post = id}]}
       /\ Reply(NoResp)

DeletePostRemove(d) ==
  /\ UNCHANGED sideVars
  /\ d \in deleting
  /\ deleting' = deleting \ {d}
  /\ posts' = Restrict(posts, DOMAIN posts \ {d.post})
  /\ Reply([Response("delete", 200, d.caller, d.post, "none")
              EXCEPT !.had = d.had])
  /\ UNCHANGED <<comments, nextPost, nextComment, creating, commenting, now,
                 everPublished>>

(***************************************************************************)
(* GET /api/posts/:id and GET /api/posts/slug/:slug.  Both routes load the *)
(* post, populate its author, hide an unpublished post from everyone but   *)
(* its author and the admins, and count a view of a published one.         *)
(***************************************************************************)
ReadPost(op, caller, id) ==
  /\ UNCHANGED sideVars
  /\ UNCHANGED <<comments, nextPost, nextComment, creating, deleting,
                 commenting, everPublished>>
  /\ IF id = 0 THEN
       /\ Reply(Response(op, 404, caller, 0, "none"))
       /\ UNCHANGED posts
     ELSE IF posts[id].status # "published" /\ caller = Anon THEN
       /\ Reply(Response(op, 404, caller, id, "none"))
       /\ UNCHANGED posts
     ELSE IF posts[id].status # "published"
             /\ PopulateAuthor(posts[id]) = "null" THEN
       \* post.author._id of a null author throws: the catch block answers 500
       /\ Reply(Response(op, 500, caller, id, "TypeError"))
       /\ UNCHANGED posts
     ELSE IF posts[id].status # "published"
             /\ caller # PopulateAuthor(posts[id])
             /\ Role(caller) # "admin" THEN
       /\ Reply(Response(op, 404, caller, id, "none"))
       /\ UNCHANGED posts
     ELSE
       /\ posts' = IF posts[id].status = "published"
                   THEN [posts EXCEPT ![id].views = @ + 1] ELSE posts
       /\ Reply(Response(op, 200, caller, id, "none"))

GetPost(caller, key) ==
  /\ Receive
  /\ ReadPost("get", caller, FindPost(posts, key))

GetPostBySlug(caller, slug) ==
  /\ Receive
  /\ ReadPost("get", caller,
              FindPost(posts, [kind |-> "slug", id |-> 0, slug |-> slug]))

(***************************************************************************)
(* PUT /api/posts/:id/like, as one step: a toggle that no other request    *)
(* interleaves with.  LikeLoad and LikeSave below split it at its save().  *)
(***************************************************************************)
\* post.likes.findIndex(like => like.user equals the caller); 0 when absent
LikeIndex(likes, caller) ==
  IF \E i \in 1..Len(likes) : likes[i] = caller
  THEN CHOOSE i \in 1..Len(likes) :
         likes[i] = caller /\ \A j \in 1..(i - 1) : likes[j] # caller
  ELSE 0

\* likes.splice(i, 1)
Splice(likes, i) == SubSeq(likes, 1, i - 1) \o SubSeq(likes, i + 1, Len(likes))

ToggleLike(likes, caller) ==
  IF LikeIndex(likes, caller) > 0
  THEN Splice(likes, LikeIndex(likes, caller))
  ELSE Append(likes, caller)

LikePost(caller, key) ==
  /\ UNCHANGED sideVars
  /\ Receive
  /\ UNCHANGED <<comments, nextPost, nextComment, creating, deleting,
                 commenting, everPublished>>
  /\ LET id == FindPost(posts, key) IN
     IF id = 0 THEN
       /\ Reply(Response("like", 404, caller, 0, "none"))
       /\ UNCHANGED posts
     ELSE
       \* post.save(): the hook finds neither title, status nor content
       \* modified, so only the likes are written
       /\ posts' = [posts EXCEPT ![id].likes = ToggleLike(@, caller)]
       /\ Reply(Response("like", 200, caller, id, "none"))

(***************************************************************************)
(* POST /api/comments.  CreateComment checks that the post and the parent  *)
(* exist; CreateCommentInsert is the Comment.create that follows, with the *)
(* comment model's pre-save hook.                                          *)
(***************************************************************************)
CreateComment(caller, post, parentComment) ==
  /\ UNCHANGED sideVars
  /\ Receive
  /\ UNCHANGED <<posts, comments, nextPost, creating, deleting,
                 everPublished>>
  /\ IF post \notin DOMAIN posts THEN
       /\ Reply(Response("comment", 404, caller, 0, "none"))
       /\ UNCHANGED <<commenting, nextComment>>
     ELSE IF parentComment # 0 /\ parentComment \notin DOMAIN comments THEN
       /\ Reply(Response("comment", 404, caller, post, "none"))
       /\ UNCHANGED <<commenting, nextComment>>
     ELSE
       /\ nextComment <= MaxComments
       /\ commenting' = commenting \cup
            {[rid |-> now, id |-> nextComment, author |-> caller,
              post |-> post, parentComment |-> parentComment]}
       /\ nextComment' = nextComment + 1
       /\ Reply(NoResp)

\* commentSchema.pre('save'): $push the reply onto its parent, if stored
PushReply(C, parentComment, id) ==
  IF parentComment # 0 /\ parentComment \in DOMAIN C
  THEN [C EXCEPT ![parentComment].replies = Append(@, id)]
  ELSE C

CreateCommentInsert(c) ==
  /\ UNCHANGED sideVars
  /\ c \in commenting
  /\ commenting' = commenting \ {c}
  /\ comments' = (c.id :> [post |-> c.post, author |-> c.author,
                           parentComment |-> c.parentComment,
                           replies |-> <<>>, likes |-> <<>>])
                 @@ PushReply(comments, c.parentComment, c.id)
  /\ Reply(Response("comment", 201, c.author, c.post, "none"))
  /\ UNCHANGED <<posts, nextPost, nextComment, creating, deleting, now,
                 everPublished>>

(***************************************************************************)
(* Next-state relation and specification.                                  *)
(***************************************************************************)
Next ==
  \/ \E caller \in Writers, body \in CreateBodies : CreatePost(caller, body)
  \/ \E c \in creating : CreatePostInsert(c)
  \/ \E caller \in Users, key \in Keys, body \in UpdateBodies :
       UpdatePost(caller, key, body)
  \/ \E caller \in Users, key \in Keys : DeletePost(caller, key)
  \/ \E d \in deleting : DeletePostRemove(d)
  \/ \E caller \in Callers, key \in Keys : GetPost(caller, key)
  \/ \E caller \in Callers, slug \in BodySlugs : GetPostBySlug(caller, slug)
  \/ \E caller \in Users, key \in Keys : LikePost(caller, key)
  \/ \E caller \in Users, post \in PostIds,
        parentComment \in {0} \cup CommentIds :
       CreateComment(caller, post, parentComment)
  \/ \E c \in commenting : CreateCommentInsert(c)

Spec == Init /\ [][Next]_vars

(***************************************************************************)
(* The create and update routes alone, in every interleaving of their      *)
(* steps: the part of the router that writes the status and the            *)
(* publication time of a post.                                             *)
(***************************************************************************)
EditNext ==
  \/ \E caller \in Writers, body \in CreateBodies : CreatePost(caller, body)
  \/ \E c \in creating : CreatePostInsert(c)
  \/ \E caller \in Users, key \in Keys, body \in UpdateBodies :
       UpdatePost(caller, key, body)

EditSpec == Init /\ [][EditNext]_vars

(***************************************************************************)
(* Posts saved one after another: every POST /api/posts runs to its        *)
(* response before the next one arrives.  The titles and contents are the  *)
(* ones the slug rule and the reading-time rule tell apart.                *)
(***************************************************************************)
TitleTrail == <<"a", " ", "!">>
TitleLead == <<"!", " ", "a">>
\* a title whose 50th character is a space
TitleLong == [i \in 1..(SlugMaxLen + 1) |-> IF i = SlugMaxLen THEN " " ELSE "w"]
\* 200 words and a tag with an attribute
TaggedText == Words(WordsPerMinute) \o <<" ", "<", "a", " ", "h", ">">>

\* a title whose base slug is the second slug of the title 'a b'
TitleAB1 == <<"a", " ", "b", " ", "1">>

SaveTitles == {TitleHi, TitleAB, TitleAB1, TitleTrail, TitleLead, TitleLong}
SaveContents == {OneWord, LongText, TaggedText}

SaveBodies ==
  {[EmptyBody EXCEPT !.has = {"title", "content"}, !.title = t, !.content = c] :
     t \in SaveTitles, c \in SaveContents}

\* POST /api/posts from the request to the response, nothing interleaved
CreatePostSeq(caller, body) ==
  /\ Receive
  /\ creating = {}
  /\ UNCHANGED <<comments, nextComment, creating, deleting, commenting>>
  /\ UNCHANGED sideVars
  /\ LET b == Sanitize(body)
         doc == PreSaveNew(posts, nextPost, b, caller, now)
     IN
     IF ~Authorize(caller) THEN
       /\ Reply(Response("create", 403, caller, 0, "none"))
       /\ UNCHANGED <<posts, nextPost, everPublished>>
     ELSE IF ~ValidatePostCreation(b) THEN
       /\ Reply(Response("create", 400, caller, 0, "validation"))
       /\ UNCHANGED <<posts, nextPost, everPublished>>
     ELSE IF ~SchemaValid(b) THEN
       /\ Reply(Response("create", 400, caller, 0, "ValidationError"))
       /\ UNCHANGED <<posts, nextPost, everPublished>>
     ELSE IF ~UniqueIndexOK(posts, nextPost, doc.slug) THEN
       /\ nextPost <= MaxPosts
       /\ nextPost' = nextPost + 1
       /\ Reply(Response("create", 500, caller, nextPost, "E11000"))
       /\ UNCHANGED <<posts, everPublished>>
     ELSE
       /\ nextPost <= MaxPosts
       /\ nextPost' = nextPost + 1
       /\ posts' = (nextPost :> doc) @@ posts
       /\ everPublished' = IF doc.status = "published"
                           THEN everPublished \cup {nextPost}
                           ELSE everPublished
       /\ Reply(Response("create", 201, caller, nextPost, "none"))

SaveNext == \E caller \in Writers, body \in SaveBodies : CreatePostSeq(caller, body)

SaveSpec == Init /\ [][SaveNext]_vars

(***************************************************************************)
(* The like routes and DELETE /api/comments/:id, with their store calls as *)
(* separate steps.  LikeLoad is the findById of a like route, LikeSave the *)
(* save() of the document it loaded: an array it pushed onto is written    *)
(* with $push, an array it spliced is written whole and only if the        *)
(* document's version is still the one loaded; both bump the version.      *)
(***************************************************************************)
PlainBody ==
  [EmptyBody EXCEPT !.has = {"title", "content"},
                    !.title = TitleHi, !.content = OneWord]

\* is the document of a like route stored?
Stored(P, C, key) ==
  IF key.kind = "post" THEN key.id \in DOMAIN P ELSE key.id \in DOMAIN C

\* its likes
LikesOf(P, C, key) ==
  IF key.kind = "post" THEN P[key.id].likes ELSE C[key.id].likes

LikeLoad(caller, key) ==
  /\ Receive
  /\ UNCHANGED <<posts, comments, nextPost, nextComment, creating, deleting,
                 commenting, everPublished>>
  /\ UNCHANGED <<users, version, deletingComment, loop, clientVars>>
  /\ IF ~Stored(posts, comments, key) THEN
       /\ Reply([Response("like", 404, caller, 0, "none")
                   EXCEPT !.comment = IF key.kind = "comment" THEN key.id
                                      ELSE 0])
       /\ UNCHANGED liking
     ELSE
       /\ liking' = liking \cup
            {[rid |-> now, caller |-> caller, key |-> key,
              likes |-> LikesOf(posts, comments, key), v |-> version[key]]}
       /\ Reply(NoResp)

\* the response of a like route for the request l
LikeResponse(l, code, err) ==
  [Response("like", code, l.caller,
            IF l.key.kind = "post" THEN l.key.id ELSE 0, err)
     EXCEPT !.comment = IF l.key.kind = "comment" THEN l.key.id ELSE 0]

\* the stored likes after the $push of one entry
PushLike(likes, caller) == Append(likes, caller)

LikeSave(l) ==
  /\ l \in liking
  /\ liking' = liking \ {l}
  /\ UNCHANGED <<nextPost, nextComment, creating, deleting, commenting, now,
                 everPublished>>
  /\ UNCHANGED <<users, deletingComment, loop, clientVars>>
  /\ LET index == LikeIndex(l.likes, l.caller)
         written == IF index > 0 THEN Splice(l.likes, index)
                    ELSE PushLike(LikesOf(posts, comments, l.key), l.caller)
     IN
     IF ~Stored(posts, comments, l.key) THEN
       \* the update matches no document: save() throws
       /\ Reply(LikeResponse(l, 500, "DocumentNotFoundError"))
       /\ UNCHANGED <<posts, comments, version>>
     ELSE IF index > 0 /\ version[l.key] # l.v THEN
       /\ Reply(LikeResponse(l, 500, "VersionError"))
       /\ UNCHANGED <<posts, comments, version>>
     ELSE
       /\ IF l.key.kind = "post"
          THEN /\ posts' = [posts EXCEPT ![l.key.id].likes = written]
               /\ UNCHANGED comments
          ELSE /\ comments' = [comments EXCEPT ![l.key.id].likes = written]
               /\ UNCHANGED posts
       /\ version' = [version EXCEPT ![l.key] = @ + 1]
       /\ Reply(LikeResponse(l, 200, "none"))

\* the comments matched by Comment.deleteMany({ parentComment: id })
RepliesOf(C, id) == {c \in DOMAIN C : C[c].parentComment = id}

\* DELETE /api/comments/:id up to Comment.deleteMany
DeleteComment(caller, id) ==
  /\ Receive
  /\ UNCHANGED <<posts, nextPost, nextComment, creating, deleting, commenting,
                 everPublished>>
  /\ UNCHANGED <<users, liking, version, loop, clientVars>>
  /\ IF id \notin DOMAIN comments THEN
       /\ Reply([Response("deleteComment", 404, caller, 0, "none")
                   EXCEPT !.comment = id])
       /\ UNCHANGED <<comments, deletingComment>>
     ELSE IF ~OwnerOrAdmin(caller, comments[id]) THEN
       /\ Reply([Response("deleteComment", 403, caller, 0, "none")
                   EXCEPT !.comment = id])
       /\ UNCHANGED <<comments, deletingComment>>
     ELSE
       /\ comments' = Restrict(comments,
                                DOMAIN comments \ RepliesOf(comments, id))
       /\ deletingComment' = deletingComment \cup
            {[rid |-> now, caller |-> caller, comment |-> id]}
       /\ Reply(NoResp)

\* the Comment.findByIdAndDelete that follows, and the response
DeleteCommentRemove(d) ==
  /\ d \in deletingComment
  /\ deletingComment' = deletingComment \ {d}
  /\ comments' = Restrict(comments, DOMAIN comments \ {d.comment})
  /\ Reply([Response("deleteComment", 200, d.caller, 0, "none")
              EXCEPT !.comment = d.comment])
  /\ UNCHANGED <<posts, nextPost, nextComment, creating, deleting, commenting,
                 now, everPublished>>
  /\ UNCHANGED <<users, liking, version, loop, clientVars>>

\* GET /api/comments/:id, which any caller may send: the comment with its
\* post populated (title and slug), null when the post is not stored.  The
\* post of the response is the post whose title and slug it carries.
GetComment(caller, id) ==
  /\ Receive
  /\ UNCHANGED <<posts, comments, nextPost, nextComment, creating, deleting,
                 commenting, everPublished>>
  /\ UNCHANGED sideVars
  /\ IF id \notin DOMAIN comments THEN
       Reply([Response("getComment", 404, caller, 0, "none")
                EXCEPT !.comment = id])
     ELSE
       Reply([Response("getComment", 200, caller,
                       IF comments[id].post \in DOMAIN posts
                       THEN comments[id].post ELSE 0, "none")
                EXCEPT !.comment = id])

\* one stored post, written by alice
ThreadInit ==
  /\ posts = (1 :> PreSaveNew(<<>>, 1, PlainBody, "alice", 0))
  /\ nextPost = 2
  /\ comments = <<>>
  /\ nextComment = 1
  /\ creating = {}
  /\ deleting = {}
  /\ commenting = {}
  /\ now = 1
  /\ everPublished = {}
  /\ resp = NoResp
  /\ users = Users
  /\ liking = {}
  /\ version = [k \in LikeKeys |-> 0]
  /\ deletingComment = {}
  /\ loop = NoLoop
  /\ ClientInit

ThreadNext ==
  \/ \E caller \in Users, parentComment \in {0} \cup CommentIds :
       CreateComment(caller, 1, parentComment)
  \/ \E c \in commenting : CreateCommentInsert(c)
  \/ \E caller \in Users, id \in CommentIds : DeleteComment(caller, id)
  \/ \E d \in deletingComment : DeleteCommentRemove(d)
  \/ \E caller \in Users, key \in LikeKeys : LikeLoad(caller, key)
  \/ \E l \in liking : LikeSave(l)
  \/ \E caller \in Callers, id \in CommentIds : GetComment(caller, id)
  \/ \E caller \in Callers, key \in Keys : GetPost(caller, key)

ThreadSpec == ThreadInit /\ [][ThreadNext]_vars

(***************************************************************************)
(* The uniqueness loop of the save hook, one findOne per step, while other *)
(* requests may insert posts between two of its steps.                     *)
(***************************************************************************)
\* the loop is followed for one candidate more than MaxPosts posts can take
MaxCounter == MaxPosts + 2

SlugHi1 == SlugHi \o <<"-", "1">>
SlugHi2 == SlugHi \o <<"-", "2">>
SlugAB == <<"a", "-", "b">>

\* the slugs of the posts stored around the loop
LoopSlugs == {SlugHi, SlugHi1, SlugHi2, SlugAB}
LoopTitles == {TitleHi, TitleAB, TitleTrail}

\* a stored post that was created with the given slug in its body
StoredWithSlug(slug) ==
  PreSaveNew(<<>>, 0, [PlainBody EXCEPT !.has = @ \cup {"slug"}, !.slug = slug],
             "alice", 0)

\* the stores of at most MaxPosts posts, which the unique index keeps
\* free of duplicate slugs
LoopStores ==
  UNION {{[i \in 1..n |-> StoredWithSlug(f[i])] :
            f \in {g \in [1..n -> LoopSlugs] :
                     \A i, j \in 1..n : i # j => g[i] # g[j]}} :
         n \in 0..MaxPosts}

LoopInit ==
  /\ posts \in LoopStores
  /\ nextPost = Len(posts) + 1
  /\ comments = <<>>
  /\ nextComment = 1
  /\ creating = {}
  /\ deleting = {}
  /\ commenting = {}
  /\ now = 1
  /\ everPublished = {}
  /\ resp = NoResp
  /\ users = Users
  /\ liking = {}
  /\ version = [k \in LikeKeys |-> 0]
  /\ deletingComment = {}
  /\ loop = NoLoop
  /\ ClientInit

\* a candidate that never gets its suffix
SameCandidate(baseSlug, counter) == baseSlug

\* slug = `${baseSlug}-${counter}`
NextCandidate(baseSlug, counter) == baseSlug \o <<"-">> \o NumStr(counter)

\* the hook enters its slug branch for a new document (_id 0) with this title
LoopStart(title) ==
  /\ loop.pc = "idle"
  /\ loop' = [pc |-> "check", self |-> 0, baseSlug |-> BaseSlug(title),
              slug |-> BaseSlug(title), counter |-> 1]
  /\ UNCHANGED <<posts, comments, nextPost, nextComment, creating, deleting,
                 commenting, now, everPublished, resp>>
  /\ UNCHANGED <<users, liking, version, deletingComment, clientVars>>

\* one turn of while (true): findOne, then break or the next candidate
LoopCheck ==
  /\ loop.pc = "check"
  /\ loop.counter < MaxCounter
  /\ IF FindBySlug(posts, loop.slug) \subseteq {loop.self}
     THEN loop' = [loop EXCEPT !.pc = "done"]
     ELSE loop' = [loop EXCEPT
                     !.slug = NextCandidate(loop.baseSlug, loop.counter),
                     !.counter = @ + 1]
  /\ UNCHANGED <<posts, comments, nextPost, nextComment, creating, deleting,
                 commenting, now, everPublished, resp>>
  /\ UNCHANGED <<users, liking, version, deletingComment, clientVars>>

\* the insert of another request commits while the loop awaits its findOne
LoopInsert(slug) ==
  /\ loop.pc = "check"
  /\ nextPost <= MaxPosts
  /\ UniqueIndexOK(posts, nextPost, slug)
  /\ posts' = (nextPost :> StoredWithSlug(slug)) @@ posts
  /\ nextPost' = nextPost + 1
  /\ UNCHANGED <<comments, nextComment, creating, deleting, commenting, now,
                 everPublished, resp>>
  /\ UNCHANGED sideVars

LoopNext ==
  \/ \E title \in LoopTitles : LoopStart(title)
  \/ LoopCheck
  \/ \E slug \in LoopSlugs : LoopInsert(slug)

\* the runtime resumes a hook whose findOne has answered
LoopSpec == LoopInit /\ [][LoopNext]_vars /\ WF_vars(LoopCheck)

(***************************************************************************)
(* DELETE /api/users/:id, on a store that posts and comments are written   *)
(* to by the users who are still stored.                                   *)
(***************************************************************************)
\* authorize('admin')
AuthorizeAdmin(caller) == Role(caller) = "admin"

\* the posts matched by Post.deleteMany({ author: id })
PostsBy(P, id) == {p \in DOMAIN P : P[p].author = id}

DeleteUser(caller, id) ==
  /\ Receive
  /\ UNCHANGED <<comments, nextPost, nextComment, creating, deleting,
                 commenting, everPublished>>
  /\ UNCHANGED <<liking, version, deletingComment, loop, clientVars>>
  /\ IF ~AuthorizeAdmin(caller) THEN
       /\ Reply(Response("deleteUser", 403, caller, 0, "none"))
       /\ UNCHANGED <<posts, users>>
     ELSE IF id \notin users THEN
       /\ Reply(Response("deleteUser", 404, caller, 0, "none"))
       /\ UNCHANGED <<posts, users>>
     ELSE IF caller = id THEN
       /\ Reply(Response("deleteUser", 400, caller, 0, "none"))
       /\ UNCHANGED <<posts, users>>
     ELSE
       /\ posts' = Restrict(posts, DOMAIN posts \ PostsBy(posts, id))
       /\ users' = users \ {id}
       /\ Reply(Response("deleteUser", 200, caller, 0, "none"))

AdminBodies == {PlainBody, [PlainBody EXCEPT !.title = TitleAB]}

AdminNext ==
  \/ \E caller \in users \ {"admin"}, body \in AdminBodies :
       CreatePost(caller, body)
  \/ \E c \in creating : CreatePostInsert(c)
  \/ \E caller \in users, post \in PostIds :
       CreateComment(caller, post, 0)
  \/ \E c \in commenting : CreateCommentInsert(c)
  \/ \E caller \in users, key \in Keys : DeletePost(caller, key)
  \/ \E d \in deleting : DeletePostRemove(d)
  \/ \E caller \in users, id \in Users \cup {Ghost} : DeleteUser(caller, id)

AdminSpec == Init /\ [][AdminNext]_vars

(***************************************************************************)
(* The auth context of the front end (context/AuthContext.js): the reducer *)
(* and the provider's functions.  Every function awaits its request and    *)
(* dispatches afterwards, so a call is two steps: the call, and the         *)
(* dispatch when the request has answered.                                  *)
(***************************************************************************)
MaxRequests == 3

UserNames == {"n1", "n2"}

\* the user document the auth routes answer with
UserDoc(id, name) == [_id |-> id, username |-> name]

\* { ...a, ...b }
Spread(a, b) ==
  LET A == IF a = NullObject THEN <<>> ELSE a
      B == IF b = NullObject THEN <<>> ELSE b
  IN [f \in DOMAIN A \cup DOMAIN B |-> IF f \in DOMAIN B THEN B[f] ELSE A[f]]

authReducer(state, action) ==
  CASE action.type = "SET_LOADING" ->
         [state EXCEPT !.loading = action.payload]
    [] action.type = "LOGIN_SUCCESS" ->
         [state EXCEPT !.user = action.payload.user,
                       !.token = action.payload.token,
                       !.isAuthenticated = TRUE,
                       !.loading = FALSE]
    [] action.type = "LOGOUT" ->
         [state EXCEPT !.user = NullObject, !.token = Null,
                       !.isAuthenticated = FALSE, !.loading = FALSE]
    [] action.type = "UPDATE_USER" ->
         [state EXCEPT !.user = Spread(state.user, action.payload)]
    [] OTHER -> state

Dispatch(a, action) == [a EXCEPT !.state = authReducer(@, action)]

\* the frame of a step of the auth context
AuthFrame ==
  UNCHANGED <<posts, comments, nextPost, nextComment, creating, deleting,
              commenting, now, everPublished, resp, users, liking, version,
              deletingComment, loop, hook, cache, page>>

\* one of login, logout and updateUser is called
Call(a, p) == [a EXCEPT !.pending = @ \cup {p}]

\* the loadUser effect, with no token in localStorage
LoadUser ==
  /\ [kind |-> "load"] \in auth.pending
  /\ auth' = [Dispatch(auth, [type |-> "SET_LOADING", payload |-> FALSE])
                EXCEPT !.pending = @ \ {[kind |-> "load"]}]
  /\ AuthFrame

\* login(email, password) up to its axios.post
Login(id, name) ==
  /\ Cardinality(auth.pending) < MaxRequests
  /\ auth' = Call(Dispatch(auth, [type |-> "SET_LOADING", payload |-> TRUE]),
                  [kind |-> "login", user |-> UserDoc(id, name)])
  /\ AuthFrame

\* the rest of login: the request has answered, with the user or an error
LoginDone(p, ok) ==
  /\ p \in auth.pending /\ p.kind = "login"
  /\ auth' = [Dispatch(auth,
                IF ok THEN [type |-> "LOGIN_SUCCESS",
                            payload |-> [user |-> p.user, token |-> "token"]]
                ELSE [type |-> "SET_LOADING", payload |-> FALSE])
                EXCEPT !.pending = @ \ {p}]
  /\ AuthFrame

\* logout() up to its axios.get
Logout ==
  /\ Cardinality(auth.pending) < MaxRequests
  /\ auth' = Call(auth, [kind |-> "logout"])
  /\ AuthFrame

\* the rest of logout, whatever the request answered
LogoutDone(p) ==
  /\ p \in auth.pending /\ p.kind = "logout"
  /\ auth' = [Dispatch(auth, [type |-> "LOGOUT"]) EXCEPT !.pending = @ \ {p}]
  /\ AuthFrame

\* updateUser(userData) up to its axios.put, by the user who is logged in
UpdateUser(name) ==
  /\ Cardinality(auth.pending) < MaxRequests
  /\ auth.state.user # NullObject
  /\ auth' = Call(auth, [kind |-> "update",
                         user |-> UserDoc(auth.state.user._id, name)])
  /\ AuthFrame

\* the rest of updateUser: the request has answered, with the updated
\* document or an error
UpdateUserDone(p, ok) ==
  /\ p \in auth.pending /\ p.kind = "update"
  /\ auth' = [(IF ok THEN Dispatch(auth, [type |-> "UPDATE_USER",
                                          payload |-> p.user])
               ELSE auth)
                EXCEPT !.pending = @ \ {p}]
  /\ AuthFrame

AuthNext ==
  \/ LoadUser
  \/ \E id \in Users, name \in UserNames : Login(id, name)
  \/ \E p \in auth.pending, ok \in BOOLEAN : LoginDone(p, ok)
  \/ Logout
  \/ \E p \in auth.pending : LogoutDone(p)
  \/ \E name \in UserNames : UpdateUser(name)
  \/ \E p \in auth.pending, ok \in BOOLEAN : UpdateUserDone(p, ok)

AuthSpec == Init /\ [][AuthNext]_vars

(***************************************************************************)
(* One instance of the useApi hook (hooks/useApi.js) in a mounted          *)
(* component.  execute runs up to its await in one step; the rest of it    *)
(* runs when its request settles: with a response, with an error, or, when *)
(* its controller was aborted while it was in flight, with the rejection   *)
(* axios raises for a cancelled request.                                   *)
(***************************************************************************)
RequestKeys == {"GET:/a", "GET:/b"}

Outcomes == {"response", "error", "401"}

\* controller.abort(): the request of the controller is cancelled when it
\* is still in flight; 0 is the null the optional call is skipped for
Abort(reqs, i) ==
  IF i = 0 THEN reqs
  ELSE [reqs EXCEPT ![i].st = IF @ = "flight" THEN "aborted" ELSE @]

\* the frame of a step of the hook
ApiFrame ==
  UNCHANGED <<posts, comments, nextPost, nextComment, creating, deleting,
              commenting, now, everPublished, resp, users, liking, version,
              deletingComment, loop, cache, page>>

\* execute(url, method, requestData), with requestKey = key, up to its await
Execute(key) ==
  /\ hook.mounted
  /\ Len(hook.reqs) < MaxRequests
  /\ LET reqs == IF hook.ref # 0 /\ hook.reqs[hook.ref].key = key
                 THEN Abort(hook.reqs, hook.ref)
                 ELSE hook.reqs
     IN hook' = [hook EXCEPT
                   !.reqs = Append(reqs, [key |-> key, st |-> "flight"]),
                   !.ref = Len(hook.reqs) + 1,
                   !.loading = TRUE,
                   !.error = 0]
  /\ UNCHANGED auth
  /\ ApiFrame

\* the request of the i-th execute settles without having been cancelled:
\* the try block goes on or the catch block runs, and then the finally block
Settle(i, outcome) ==
  /\ i \in DOMAIN hook.reqs
  /\ hook.reqs[i].st = "flight"
  /\ hook' = [hook EXCEPT
                !.reqs[i].st = "settled",
                !.data = IF outcome = "response" THEN i ELSE @,
                !.error = IF outcome = "response" THEN @ ELSE i,
                !.loading = FALSE]
  /\ auth' = IF outcome = "401"
             THEN Call(auth, [kind |-> "logout"])
             ELSE auth
  /\ ApiFrame

\* the cancelled request of the i-th execute rejects: the catch block
\* returns, and the finally block runs
Cancelled(i) ==
  /\ i \in DOMAIN hook.reqs
  /\ hook.reqs[i].st = "aborted"
  /\ hook' = [hook EXCEPT !.reqs[i].st = "settled", !.loading = FALSE]
  /\ UNCHANGED auth
  /\ ApiFrame

\* the component unmounts: the cleanup of the mount effect runs, with the
\* controller the effect read from the ref when it ran
Unmount ==
  /\ hook.mounted
  /\ hook' = [hook EXCEPT !.mounted = FALSE,
                          !.reqs = Abort(@, hook.captured)]
  /\ UNCHANGED auth
  /\ ApiFrame

ApiNext ==
  \/ \E key \in RequestKeys : Execute(key)
  \/ \E i \in 1..MaxRequests, outcome \in Outcomes : Settle(i, outcome)
  \/ \E i \in 1..MaxRequests : Cancelled(i)
  \/ Unmount
  \/ \E p \in auth.pending : LogoutDone(p)

ApiSpec == Init /\ [][ApiNext]_vars

(***************************************************************************)
(* The TTL cache of the front end (utils/cache.js): a Map from keys to     *)
(* items { value, expiry }.  Time passes between the calls, by a           *)
(* millisecond or by the default expiry.                                   *)
(***************************************************************************)
CacheKeys == {"k1", "k2"}
CacheValues == {"v1", "v2"}
Expiries == {1, CACHE_EXPIRY}

\* the frame of a call of the cache
CacheFrame ==
  UNCHANGED <<posts, comments, nextPost, nextComment, creating, deleting,
              commenting, everPublished, resp, users, liking, version,
              deletingComment, loop, hook, auth, page>>

\* an item that is never taken for expired
NeverExpired(item, t) == FALSE

\* Date.now() > item.expiry
Expired(item, t) == t > item.expiry

\* time passes
Tick(d) ==
  /\ Receive
  /\ cache' = [cache EXCEPT !.time = @ + d]
  /\ CacheFrame

\* setCache(key, value, expiry) with a string key
SetCache(key, value, expiry) ==
  /\ cache' = [cache EXCEPT
       !.map = (key :> [value |-> value, expiry |-> cache.time + expiry]) @@ @,
       !.written = (key :> [value |-> value, at |-> cache.time,
                            expiry |-> expiry]) @@ @]
  /\ UNCHANGED now
  /\ CacheFrame

\* getCache(key) with a string key
GetCache(key) ==
  /\ LET got(value) == [key |-> key, value |-> value, all |-> <<>>,
                        at |-> cache.time]
     IN
     IF key \notin DOMAIN cache.map THEN
       cache' = [cache EXCEPT !.got = got(Null)]
     ELSE IF Expired(cache.map[key], cache.time) THEN
       cache' = [cache EXCEPT
                   !.map = Restrict(@, DOMAIN @ \ {key}),
                   !.got = got(Null)]
     ELSE
       cache' = [cache EXCEPT !.got = got(cache.map[key].value)]
  /\ UNCHANGED now
  /\ CacheFrame

\* getCache() without a key: the items that have not expired, as one object
GetCacheAll ==
  /\ LET live == {k \in DOMAIN cache.map :
                    ~Expired(cache.map[k], cache.time)}
     IN cache' = [cache EXCEPT
                    !.map = Restrict(@, live),
                    !.got = [key |-> Null, value |-> Null,
                             all |-> [k \in live |-> cache.map[k].value],
                             at |-> cache.time]]
  /\ UNCHANGED now
  /\ CacheFrame

\* removeCache(key), clearCacheEntry(key)
RemoveCache(key) ==
  /\ cache' = [cache EXCEPT !.map = Restrict(@, DOMAIN @ \ {key}),
                            !.written = Restrict(@, DOMAIN @ \ {key})]
  /\ UNCHANGED now
  /\ CacheFrame

\* clearCache()
ClearCache ==
  /\ cache' = [cache EXCEPT !.map = <<>>, !.written = <<>>]
  /\ UNCHANGED now
  /\ CacheFrame

\* cleanExpiredCache(), which a timer calls
CleanExpiredCache ==
  /\ cache' = [cache EXCEPT
       !.map = Restrict(@, {k \in DOMAIN @ : ~Expired(@[k], cache.time)})]
  /\ UNCHANGED now
  /\ CacheFrame

CacheNext ==
  \/ \E d \in Expiries : Tick(d)
  \/ \E key \in CacheKeys, value \in CacheValues, expiry \in Expiries :
       SetCache(key, value, expiry)
  \/ \E key \in CacheKeys : GetCache(key)
  \/ GetCacheAll
  \/ \E key \in CacheKeys : RemoveCache(key)
  \/ ClearCache
  \/ CleanExpiredCache

CacheSpec == Init /\ [][CacheNext]_vars

(***************************************************************************)
(* The EditPost page (pages/EditPost.js) of the user who is logged in,     *)
(* against the posts router: the page sends a request, the router answers  *)
(* it, and the page goes on with the answer.                               *)
(***************************************************************************)
PageUser == "alice"

PageBodies ==
  {PlainBody}
  \cup {[PlainBody EXCEPT !.has = @ \cup {"status"}, !.status = status] :
          status \in Statuses}

IdKey(id) == [kind |-> "id", id |-> id, slug |-> <<>>]

\* the frame of a step of the page
PageFrame ==
  UNCHANGED <<posts, comments, nextPost, nextComment, creating, deleting,
              commenting, now, everPublished, resp, users, liking, version,
              deletingComment, loop, hook, cache, auth>>

\* has the router answered the request the page sent?
Answered == now > page.sentAt

\* the page is opened for a post: the effect calls getPost(id)
OpenPage(id) ==
  /\ page.phase = "closed"
  /\ page' = [NoPage EXCEPT !.phase = "fetching", !.id = id, !.sentAt = now]
  /\ PageFrame

\* the rest of fetchPost: the form is filled from the post of the response,
\* or the page is left
PostFetched ==
  /\ page.phase = "fetching"
  /\ Answered
  /\ IF resp.code = 200 /\ OwnerOrAdmin(PageUser, posts[page.id]) THEN
       page' = [page EXCEPT
                  !.phase = "editing",
                  !.originalPost = page.id,
                  !.formData = [title |-> posts[page.id].title,
                                content |-> posts[page.id].content,
                                status |-> posts[page.id].status]]
     ELSE
       page' = NoPage
  /\ PageFrame

\* validateForm()
ValidateForm(formData) ==
  /\ Len(Trim(formData.title)) > 0
  /\ Len(formData.title) <= TitleMaxLen
  /\ Len(Trim(formData.content)) > 0

\* the label of the button that saves without publishing
SaveLabel(formData) ==
  IF formData.status = "published" THEN "Save Changes" ELSE "Save as Draft"

\* handleSubmit(e, publish) up to its updatePost(id, postData)
HandleSubmit(publish) ==
  /\ page.phase = "editing"
  /\ ValidateForm(page.formData)
  /\ page' = [page EXCEPT
                !.phase = "submitting",
                !.submitted = IF publish THEN "Publish Post"
                              ELSE SaveLabel(page.formData),
                !.request = [EmptyBody EXCEPT
                               !.has = {"title", "content", "status"},
                               !.title = page.formData.title,
                               !.content = page.formData.content,
                               !.status = IF publish THEN "published"
                                          ELSE "draft"],
                !.sentAt = now]
  /\ PageFrame

\* the rest of handleSubmit: the page navigates away
Submitted ==
  /\ page.phase = "submitting"
  /\ Answered
  /\ page' = NoPage
  /\ PageFrame

PageNext ==
  \/ \E body \in PageBodies : page.phase = "closed" /\ CreatePost(PageUser, body)
  \/ \E c \in creating : CreatePostInsert(c)
  \/ \E id \in DOMAIN posts : OpenPage(id)
  \/ page.phase = "fetching" /\ ~Answered /\ GetPost(PageUser, IdKey(page.id))
  \/ PostFetched
  \/ \E publish \in BOOLEAN : HandleSubmit(publish)
  \/ /\ page.phase = "submitting" /\ ~Answered
     /\ UpdatePost(PageUser, IdKey(page.id), page.request)
  \/ Submitted

PageSpec == Init /\ [][PageNext]_vars

(***************************************************************************)
(* Properties.                                                             *)
(***************************************************************************)
Authorized(caller, doc) == doc.author = caller \/ caller = "admin"

\* C1: in every reachable state no two stored posts have the same slug,
\* whatever createPost, updatePost, like and deletePost requests ran and
\* however two concurrent createPost requests interleaved.
SlugsUnique ==
  \A p, q \in DOMAIN posts : p # q => posts[p].slug # posts[q].slug

\* a createPost lost the race for its slug and the unique index rejected it
DuplicateRejected ==
  /\ resp.op = "create" /\ resp.err = "E11000"
  /\ \E p \in DOMAIN posts : posts[p].title = TitleHi /\ posts[p].slug = SlugHi

\* C2: a stored post has publishedAt set if and only if it has at some
\* point had status published.
PublishedAtIffEverPublished ==
  \A p \in DOMAIN posts : posts[p].publishedAt # 0 <=> p \in everPublished

\* C3: once a post's publishedAt is set, no step changes it.
PublishedAtNeverChanges ==
  [][\A p \in DOMAIN posts \cap DOMAIN posts' :
       posts[p].publishedAt # 0
         => posts'[p].publishedAt = posts[p].publishedAt]_vars

\* C4: every stored post's readingTime is the value derived from its
\* current content.
ReadingTimeDerived ==
  \A p \in DOMAIN posts : posts[p].readingTime = ReadingTime(posts[p].content)

\* C5: no step changes the author of a stored post, and a post just
\* created is authored by the caller who created it.
AuthorNeverChanges ==
  [][/\ \A p \in DOMAIN posts \cap DOMAIN posts' :
          posts'[p].author = posts[p].author
     /\ (resp'.op = "create" /\ resp'.code = 201)
          => posts'[resp'.post].author = resp'.caller]_vars

ErrorsWriteNothing ==
  [][(resp'.op \in {"create", "update", "delete"}
        /\ resp'.code \in {400, 403, 404})
       => posts' = posts /\ comments' = comments]_vars

\* deletePost was refused on a post that has comments
RefusedWithComments ==
  /\ resp.op = "delete" /\ resp.code = 403
  /\ \E c \in DOMAIN comments : comments[c].post = resp.post

\* C8: when deletePost(P) answers success, P is not stored and none of the
\* comments P had when the request arrived is stored.
DeleteCascades ==
  (resp.op = "delete" /\ resp.code = 200)
    => /\ resp.post \notin DOMAIN posts
       /\ resp.had \cap DOMAIN comments = {}

\* a post with comments was deleted
DeletedWithComments ==
  resp.op = "delete" /\ resp.code = 200 /\ resp.had # {}

\* C9: a read of a stored post that is not published, by a caller who is
\* anonymous or neither its author nor an admin, answers 404 and changes
\* no view counter; a read of a published post answers 200.
HiddenUnlessPublished ==
  [][(resp'.op = "get" /\ resp'.post \in DOMAIN posts)
       => /\ (posts[resp'.post].status # "published"
                /\ ~Authorized(resp'.caller, posts[resp'.post]))
               => resp'.code = 404 /\ posts' = posts
          /\ posts[resp'.post].status = "published" => resp'.code = 200]_vars

\* C10: a createPost whose insert the unique index rejects is answered with
\* a conflict or validation error, not with the generic server error.
DuplicateKeyIsConflict ==
  (resp.op = "create" /\ resp.err = "E11000") => resp.code \in {400, 409}

\* the characters of a slug: lower-case letters, digits and the hyphen
SlugChars == {"h", "i", "a", "b", "w", "x", "-",
              "0", "1", "2", "3", "4", "5", "6", "7", "8", "9"}

\* every stored post has the same title
OneTitle == \A p, q \in DOMAIN posts : posts[p].title = posts[q].title

Candidate(baseSlug, n) ==
  IF n = 0 THEN baseSlug ELSE baseSlug \o <<"-">> \o NumStr(n)

\* the posts stored when the post p was created
Earlier(p) == {q \in DOMAIN posts : q < p}

SlugWellFormed ==
  \A p \in DOMAIN posts :
    LET slug == posts[p].slug IN
    /\ \A i \in 1..Len(slug) : slug[i] \in SlugChars
    /\ slug # <<>> => slug[1] # "-" /\ slug[Len(slug)] # "-"

\* C16: the stored readingTime is ceil(wordCount / 200) over the non-empty
\* tokens of the content without its tags, at least 1 for a non-empty
\* content and 0 for an empty one.
ReadingTimeCountsWords ==
  \A p \in DOMAIN posts :
    posts[p].readingTime = calculateReadingTime(posts[p].content)

\* C13: once a post is stored with its slug, no step changes that slug:
\* not an updatePost that changes the title, not an updatePost with any
\* other body, not a like toggle.
SlugNeverChanges ==
  [][\A p \in DOMAIN posts \cap DOMAIN posts' :
       posts'[p].slug = posts[p].slug]_vars

StatusBody(status) == [EmptyBody EXCEPT !.has = {"status"}, !.status = status]

\* C17: an updatePost by the author or an admin that requests one of the
\* three statuses answers success and leaves the post in that status,
\* whatever status the post had: no status is terminal.
StatusAlwaysSettable ==
  [][resp'.op = "update" =>
       \A caller \in Users, key \in Keys, status \in Statuses :
         LET id == FindPost(posts, key) IN
         (/\ caller = resp'.caller
          /\ id # 0
          /\ id = resp'.post
          /\ Authorized(caller, posts[id])
          /\ UpdatePost(caller, key, StatusBody(status)))
           => resp'.code = 200 /\ posts'[id].status = status]_vars

\* a post that was published is a draft again after an updatePost
UnpublishedAgain ==
  /\ resp.op = "update" /\ resp.code = 200
  /\ resp.post \in DOMAIN posts \cap everPublished
  /\ posts[resp.post].status = "draft"

\* a sequence without two equal entries
NoDuplicates(likes) ==
  \A i, j \in 1..Len(likes) : i # j => likes[i] # likes[j]

\* C15: the likes of every stored post and of every stored comment hold at
\* most one entry per user, also after two concurrent toggles by one user
\* that both read the likes before either saves.
LikesNoDuplicates ==
  /\ \A p \in DOMAIN posts : NoDuplicates(posts[p].likes)
  /\ \A c \in DOMAIN comments : NoDuplicates(comments[c].likes)

\* C18: when deleteComment(c) answers success, c is not stored and no stored
\* comment has c as its parentComment.
NoReplyRemains ==
  (resp.op = "deleteComment" /\ resp.code = 200)
    => /\ resp.comment \notin DOMAIN comments
       /\ \A c \in DOMAIN comments : comments[c].parentComment # resp.comment

\* C19: the uniqueness loop, once entered, comes to its end for every title
\* and every store, and the slug it ends with was held by no other post at
\* its last findOne.
LoopTerminatesFree ==
  /\ (loop.pc = "check") ~> (loop.pc = "done")
  /\ [][(loop.pc = "check" /\ loop'.pc = "done")
          => /\ loop'.slug = loop.slug
             /\ \A p \in DOMAIN posts :
                  p # loop.self => posts[p].slug # loop.slug]_vars

\* the loop ended after two candidates were taken
LoopEndedAfterCollisions ==
  /\ loop.pc = "done"
  /\ loop.counter = 3
  /\ loop.slug = SlugHi2

\* C20: a step in which deleteUser(u) succeeds leaves no post and no comment
\* authored by u in the store.
DeleteUserCascades ==
  [][\A u \in users \ users' :
       /\ \A p \in DOMAIN posts' : posts'[p].author # u
       /\ \A c \in DOMAIN comments' : comments'[c].author # u]_vars

\* C28: in every reachable state of the auth reducer isAuthenticated is true
\* exactly when user is not null, in whatever order LOGIN_SUCCESS, LOGOUT,
\* UPDATE_USER and SET_LOADING are dispatched, an UPDATE_USER of a profile
\* update that answers after LOGOUT included.
AuthenticatedIffUser ==
  auth.state.isAuthenticated <=> auth.state.user # NullObject

\* the requests of the hook that are in flight and were not aborted
InFlight == {i \in DOMAIN hook.reqs : hook.reqs[i].st = "flight"}

\* C21: when the component of a useApi instance unmounts while a request of
\* execute is in flight, the request is aborted, and no response changes
\* the data, the error or the loading flag of the hook afterwards.
UnmountAborts ==
  /\ [](~hook.mounted => InFlight = {})
  /\ [][~hook.mounted
          => /\ hook'.data = hook.data
             /\ hook'.error = hook.error
             /\ hook'.loading = hook.loading]_vars

\* C27: while a request of execute is in flight and was not aborted, the
\* loading flag of its useApi instance is true, also after an earlier
\* request with the same key was aborted by the execute and after an
\* earlier request with another key has settled.
LoadingWhileInFlight ==
  InFlight # {} => hook.loading

\* was the key set, and not removed since, and is its expiry over at time t?
SetAndOver(w, key, t) == key \in DOMAIN w /\ t > w[key].at + w[key].expiry

\* was the key set, and not removed since, less than its expiry before t?
SetAndLive(w, key, t) == key \in DOMAIN w /\ t - w[key].at < w[key].expiry

CommentPostStored ==
  \A c \in DOMAIN comments : comments[c].post \in DOMAIN posts

\* C24: no response that carries the title or the slug of a post that is not
\* published goes to a caller who is neither the post's author nor an
\* admin, from the comment read route, which populates the post of the
\* comment, as from the post read route.
UnpublishedTitleHidden ==
  (/\ resp.op \in {"get", "getComment"}
   /\ resp.code = 200
   /\ resp.post \in DOMAIN posts
   /\ posts[resp.post].status # "published")
    => Authorized(resp.caller, posts[resp.post])

\* C25: in every state reached when the createComment and deleteComment
\* requests received so far have all been answered, the parentComment of
\* every stored reply is a stored comment, and every id in the replies of a
\* stored comment is a stored comment whose parentComment is that comment;
\* the deletion of a reply and of a comment whose replies have replies are
\* among the requests.
ThreadLinksSound ==
  (commenting = {} /\ deletingComment = {}) =>
  \A c \in DOMAIN comments :
    /\ comments[c].parentComment # 0
         => comments[c].parentComment \in DOMAIN comments
    /\ \A i \in 1..Len(comments[c].replies) :
         /\ comments[c].replies[i] \in DOMAIN comments
         /\ comments[comments[c].replies[i]].parentComment = c

\* C26: the update the EditPost page sends when it is saved with
\* publish = false, from the button labelled 'Save Changes' when the post
\* is published, leaves the status of the post as it was: a published or
\* archived post is still published or archived after it.
SaveKeepsStatus ==
  [][(/\ page.phase = "submitting"
      /\ page.submitted # "Publish Post"
      /\ resp' # resp
      /\ resp'.op = "update"
      /\ resp'.code = 200)
       => posts'[page.id].status = posts[page.id].status]_vars

====
